---- MODULE Spec2Model ----
(***************************************************************************)
(* A model of src/build_kernel.py: the kernel build orchestrator (main),   *)
(* its process runner (run_command), its pattern extractor                 *)
(* (extract_match) and its archive builder (create_zip).                   *)
(*                                                                         *)
(* Text is a sequence of code points, process output a sequence of bytes.  *)
(* The file system is a handful of variables, one per place main touches.  *)
(* External processes (git, clang, make) are opaque: what they return and  *)
(* what they leave on disk is chosen nondeterministically from small sets. *)
(***************************************************************************)
EXTENDS Integers, Sequences, FiniteSets, TLC

(***************************************************************************)
(* Bounds of the model.                                                    *)
(***************************************************************************)
\* longest process output (in bytes) tried on run_command
MaxOut == 2
\* longest text (in code points) tried on extract_match
MaxText == 4
\* longest file list tried on create_zip
MaxFiles == 3
\* most entries of the command-search path main finds
MaxPath == 2
\* most runs of main in one process
MaxRuns == 3

(***************************************************************************)
(* Values.                                                                 *)
(***************************************************************************)
\* Python's None, as passed for an omitted log file (line 12)
None == "<None>"

\* bool(x) of a str-or-None value: None and "" are falsy (lines 17, 20, 23)
Truthy(x) == x # None /\ x # ""

\* the state of "no exception is propagating"
NoExc == [type |-> "none"]

\* os.cpu_count() on the build machine (lines 92, 127)
cpu_count == 4

\* os.getcwd() when main starts (lines 100, 118)
getcwd == "/kernel"

\* min(S) of a nonempty set of integers
SetMin(S) == CHOOSE x \in S : \A y \in S : x <= y

\* s[a..b], empty when b < a
Slice(s, a, b) == IF b < a THEN <<>> ELSE SubSeq(s, a, b)

(***************************************************************************)
(* bytes.decode("utf-8"), strict (lines 15-16): well-formed UTF-8 only.    *)
(***************************************************************************)
IsCont(b) == b >= 128 /\ b <= 191

\* number of bytes of the sequence a lead byte starts, 0 for an invalid lead
Utf8Width(b) ==
    IF b < 128 THEN 1
    ELSE IF b >= 194 /\ b <= 223 THEN 2
    ELSE IF b >= 224 /\ b <= 239 THEN 3
    ELSE IF b >= 240 /\ b <= 244 THEN 4
    ELSE 0

\* the second byte's range depends on the lead (no overlongs, no surrogates)
Utf8SecondOk(b0, b1) ==
    /\ IsCont(b1)
    /\ (b0 = 224 => b1 >= 160)
    /\ (b0 = 237 => b1 <= 159)
    /\ (b0 = 240 => b1 >= 144)
    /\ (b0 = 244 => b1 <= 143)

Utf8CodePoint(bs, n) ==
    IF n = 1 THEN bs[1]
    ELSE IF n = 2 THEN (bs[1] - 192) * 64 + (bs[2] - 128)
    ELSE IF n = 3 THEN (bs[1] - 224) * 4096 + (bs[2] - 128) * 64 + (bs[3] - 128)
    ELSE (bs[1] - 240) * 262144 + (bs[2] - 128) * 4096
         + (bs[3] - 128) * 64 + (bs[4] - 128)

RECURSIVE decode(_)
decode(bs) ==
    IF bs = <<>> THEN [ok |-> TRUE, text |-> <<>>]
    ELSE LET n == Utf8Width(bs[1])
         IN IF n = 0 \/ Len(bs) < n
                \/ (n >= 2 /\ ~Utf8SecondOk(bs[1], bs[2]))
                \/ (n >= 3 /\ ~IsCont(bs[3]))
                \/ (n >= 4 /\ ~IsCont(bs[4]))
            THEN [ok |-> FALSE, text |-> <<>>]
            ELSE LET rest == decode(Slice(bs, n + 1, Len(bs)))
                 IN [ok   |-> rest.ok,
                     text |-> IF rest.ok
                              THEN <<Utf8CodePoint(bs, n)>> \o rest.text
                              ELSE <<>>]

(***************************************************************************)
(* run_command (lines 12-27).                                              *)
(* proc is what the operating system makes of the command:                 *)
(*   [spawned, returncode, stdout, stderr], the streams in bytes.          *)
(* files maps each existing log path to its text.  The result carries the  *)
(* exception raised (NoExc when it returns), the returned pair, the files  *)
(* afterwards and whether the "Output log files" line was printed.         *)
(***************************************************************************)
WriteFile(files, path, text) == (path :> text) @@ files

run_command_result(exc, out, err, files, printed) ==
    [exc |-> exc, stdout |-> out, stderr |-> err, files |-> files,
     printed |-> printed]

run_command(command, proc, stdout_log_file, stderr_log_file, files) ==
    IF ~proc.spawned
    THEN \* line 13: Popen raises, nothing else happens
         run_command_result([type |-> "OSError"], <<>>, <<>>, files, FALSE)
    ELSE
    LET out == decode(proc.stdout)
        err == decode(proc.stderr)
    IN  IF ~out.ok \/ ~err.ok
        THEN \* lines 15-16: decode raises before any log is written
             run_command_result([type |-> "UnicodeDecodeError"],
                                <<>>, <<>>, files, FALSE)
        ELSE
        LET f1 == IF Truthy(stdout_log_file)
                  THEN WriteFile(files, stdout_log_file, out.text)
                  ELSE files
            f2 == IF Truthy(stderr_log_file)
                  THEN WriteFile(f1, stderr_log_file, err.text)
                  ELSE f1
            said == Truthy(stdout_log_file) \/ Truthy(stderr_log_file)
        IN  IF proc.returncode # 0
            THEN run_command_result(
                     [type |-> "CommandError", command |-> command,
                      returncode |-> proc.returncode],
                     <<>>, <<>>, f2, said)
            ELSE run_command_result(NoExc, out.text, err.text, f2, said)

(***************************************************************************)
(* re.search for the two patterns the program uses (lines 36, 65, 145).    *)
(* A text is a sequence of code points; the result is [found, group1].     *)
(***************************************************************************)
\* code points the patterns name
QUOTE == 34
NEWLINE == 10
DOT == 46

IsDigit(c) == c >= 48 /\ c <= 57

\* "clang version " (line 65)
ClangVersionLiteral ==
    <<99, 108, 97, 110, 103, 32, 118, 101, 114, 115, 105, 111, 110, 32>>

\* r'"([^"]+)"' (line 145): the leftmost quote that is followed by one or
\* more non-quote characters and then a quote; the group is what lies between
search_release(text) ==
    LET starts == {i \in 1..Len(text) :
                     /\ text[i] = QUOTE
                     /\ i + 1 <= Len(text)
                     /\ text[i + 1] # QUOTE
                     /\ \E j \in (i + 2)..Len(text) : text[j] = QUOTE}
    IN  IF starts = {} THEN [found |-> FALSE, group1 |-> <<>>]
        ELSE LET i == SetMin(starts)
                 j == SetMin({k \in (i + 2)..Len(text) : text[k] = QUOTE})
             IN [found |-> TRUE, group1 |-> Slice(text, i + 1, j - 1)]

\* first index past the run of digits that starts at i
RECURSIVE DigitsEnd(_, _)
DigitsEnd(text, i) ==
    IF i <= Len(text) /\ IsDigit(text[i]) THEN DigitsEnd(text, i + 1) ELSE i

\* first index past the greedy (\.\d+)* that starts at i
RECURSIVE GroupsEnd(_, _)
GroupsEnd(text, i) ==
    IF i + 1 <= Len(text) /\ text[i] = DOT /\ IsDigit(text[i + 1])
    THEN GroupsEnd(text, DigitsEnd(text, i + 1))
    ELSE i

\* r"(.*?clang version \d+(\.\d+)*)" (line 65): the lazy prefix cannot cross
\* a newline, so the match starts after the last newline before the first
\* "clang version <digit>" and runs to the end of the dotted number
search_version(text) ==
    LET n == Len(ClangVersionLiteral)
        occ == {p \in 1..Len(text) :
                  /\ p + n <= Len(text)
                  /\ Slice(text, p, p + n - 1) = ClangVersionLiteral
                  /\ IsDigit(text[p + n])}
    IN  IF occ = {} THEN [found |-> FALSE, group1 |-> <<>>]
        ELSE LET p == SetMin(occ)
                 nl == {k \in 1..(p - 1) : text[k] = NEWLINE}
                 s == IF nl = {} THEN 1
                      ELSE 1 + CHOOSE k \in nl : \A m \in nl : m <= k
                 e == GroupsEnd(text, DigitsEnd(text, p + n))
             IN [found |-> TRUE, group1 |-> Slice(text, s, e - 1)]

version_regex == "(.*?clang version \\d+(\\.\\d+)*)"
release_regex == "\"([^\"]+)\""

re_search(regex, text) ==
    IF regex = version_regex THEN search_version(text)
    ELSE search_release(text)

(***************************************************************************)
(* extract_match (lines 35-39).  The message of line 38 names `pattern`,   *)
(* which is bound nowhere: building the message raises NameError, and the  *)
(* AssertionError is never constructed.                                    *)
(***************************************************************************)
extract_match(regex, text) ==
    LET match == re_search(regex, text)
    IN  IF ~match.found
        THEN [exc |-> [type |-> "NameError", name |-> "pattern"],
              value |-> <<>>]
        ELSE [exc |-> NoExc, value |-> match.group1]

(***************************************************************************)
(* create_zip (lines 47-52).  dir maps each existing file of the current   *)
(* directory to its content.  ZipFile(..., 'w') creates the archive file   *)
(* at once; zf.write of a missing file raises FileNotFoundError, and       *)
(* leaving the with-block closes the archive with the entries written so   *)
(* far.  An archive is the sequence of its entries.                        *)
(***************************************************************************)
RECURSIVE zip_entries(_, _)
zip_entries(files, dir) ==
    IF files = <<>> THEN [ok |-> TRUE, entries |-> <<>>]
    ELSE IF Head(files) \notin DOMAIN dir
         THEN [ok |-> FALSE, entries |-> <<>>]
         ELSE LET rest == zip_entries(Tail(files), dir)
              IN [ok |-> rest.ok,
                  entries |-> <<[name |-> Head(files),
                                 data |-> dir[Head(files)]]>>
                              \o rest.entries]

create_zip(zip_filename, files, dir) ==
    LET w == zip_entries(files, dir)
    IN  [exc     |-> IF w.ok THEN NoExc ELSE [type |-> "FileNotFoundError"],
         archive |-> w.entries,
         dir     |-> WriteFile(dir, zip_filename, w.entries)]

(***************************************************************************)
(* file_exists (lines 29-33) on a set of existing paths; the line it       *)
(* prints for a missing path is FileNotFoundLine.                          *)
(***************************************************************************)
file_exists(present, filepath) == filepath \in present

Line(msg) == [msg |-> msg]
FileNotFoundLine(filepath) == Line("File not found: " \o filepath)

\* display_info (lines 41-45): a bar, one key=value line per entry, a bar
display_info(info_dict) ==
    <<Line("================================")>>
    \o [i \in 1..Len(info_dict) |->
          [key |-> info_dict[i][1], value |-> info_dict[i][2]]]
    \o <<Line("================================")>>

(***************************************************************************)
(* Constants of main.                                                      *)
(***************************************************************************)
\* valid_targets with one target too many
valid_targets_extra ==
    {"a51", "f41", "m31s", "m31", "m21", "gta4xl", "gta4xlwifi", "a52"}

\* line 83
valid_targets == {"a51", "f41", "m31s", "m31", "m21", "gta4xl", "gta4xlwifi"}

\* the parallelism flag, f'-j{os.cpu_count()}' (lines 92, 127)
jobs_flag == "-j" \o ToString(cpu_count)

\* lines 88-93
common_flags ==
    <<"CROSS_COMPILE=aarch64-linux-gnu-", "CC=clang", "LD=ld.lld",
      "AS=llvm-as", "AR=llvm-ar", "OBJDUMP=llvm-objdump",
      "READELF=llvm-readelf", "NM=llvm-nm", "OBJCOPY=llvm-objcopy",
      "ARCH=arm64", jobs_flag>>

\* line 95
kernel_version == "1.7.0"

\* line 98
git_submodule_update == <<"git", "submodule", "update", "--init">>

\* lines 58, 66
clang_v == <<"./toolchain/bin/clang", "-v">>

\* line 127
make_common == <<"make", "O=out", "LLVM=1", jobs_flag>> \o common_flags

\* compose_defconfig with lines 130-131 and 132-133 in the other order
compose_defconfig_swapped(a) ==
    make_common
    \o <<"exynos9611-" \o a.target \o "_defconfig">>
    \o (IF a.permissive THEN <<"permissive.config">> ELSE <<>>)
    \o (IF a.oneui THEN <<"oneui.config">> ELSE <<>>)
    \o <<"no-ksu.config">>

\* compose_defconfig with the overlay of line 134 under the no_ksu flag
compose_defconfig_gated(a) ==
    make_common
    \o <<"exynos9611-" \o a.target \o "_defconfig">>
    \o (IF a.oneui THEN <<"oneui.config">> ELSE <<>>)
    \o (IF a.permissive THEN <<"permissive.config">> ELSE <<>>)
    \o (IF a.no_ksu THEN <<"no-ksu.config">> ELSE <<>>)

\* lines 128-134: the base fragment, then the overlays
compose_defconfig(a) ==
    make_common
    \o <<"exynos9611-" \o a.target \o "_defconfig">>
    \o (IF a.oneui THEN <<"oneui.config">> ELSE <<>>)
    \o (IF a.permissive THEN <<"permissive.config">> ELSE <<>>)
    \o <<"no-ksu.config">>

\* lines 151-160: the manifest handed to create_zip
manifest ==
    <<"Image",
      "META-INF/com/google/android/update-binary",
      "META-INF/com/google/android/updater-script",
      "tools/ak3-core.sh",
      "tools/busybox",
      "tools/magiskboot",
      "anykernel.sh",
      "version">>

(***************************************************************************)
(* The command-search path (lines 118-120).  A text that may hold the      *)
(* separator is the sequence of its pieces: the separator itself and the   *)
(* runs of other characters between separators, no two runs adjacent.      *)
(* "/a:b" is <<"/a", ":", "b">> and the empty text is <<>>.                *)
(***************************************************************************)
\* os.pathsep on POSIX, and the literal of line 120
pathsep == ":"

\* a text without separator, as its pieces
TextOf(s) == IF s = "" THEN <<>> ELSE <<s>>

\* os.path.join(text, name): "/" and the name go on the end of the text
path_join(text, name) ==
    IF text # <<>> /\ text[Len(text)] # pathsep
    THEN [text EXCEPT ![Len(text)] = @ \o "/" \o name]
    ELSE Append(text, "/" \o name)

\* text.split(os.pathsep) (line 119): the runs between separators, with ""
\* where two separators meet and where the text starts or ends with one
RECURSIVE split(_)
split(text) ==
    IF text = <<>> THEN <<"">>
    ELSE IF Head(text) = pathsep THEN <<"">> \o split(Tail(text))
    ELSE IF Len(text) = 1 THEN <<Head(text)>>
    ELSE <<Head(text)>> \o split(Tail(Tail(text)))

\* lines 119-120 without the test: the directory is prepended every time
prepend_toolchain_always(path, tp) == tp \o <<pathsep>> \o path

\* lines 119-120: the value of os.environ['PATH'] after them
prepend_toolchain(path, tp) ==
    IF tp \notin {TextOf(split(path)[i]) : i \in 1..Len(split(path))}
    THEN tp \o <<pathsep>> \o path
    ELSE path

\* line 118
toolchain_path_of(cwdText) == path_join(path_join(cwdText, "toolchain"), "bin")
toolchain_path == toolchain_path_of(TextOf(getcwd))

\* datetime.today().strftime('%Y-%m-%d') (line 149): zero-padded fields
Pad2(n) == IF n < 10 THEN "0" \o ToString(n) ELSE ToString(n)
Pad4(n) ==
    IF n < 10 THEN "000" \o ToString(n)
    ELSE IF n < 100 THEN "00" \o ToString(n)
    ELSE IF n < 1000 THEN "0" \o ToString(n)
    ELSE ToString(n)
strftime(d) == Pad4(d.year) \o "-" \o Pad2(d.month) \o "-" \o Pad2(d.day)

\* lines 105, 149
build_type(a) == IF a.oneui THEN "OneUI" ELSE "AOSP"

\* format_zip_filename with the SELinux mode in the name
format_zip_filename_selinux(a, d) ==
    "SN_" \o kernel_version \o "_" \o a.target \o "_" \o build_type(a)
    \o (IF a.permissive THEN "_permissive" ELSE "")
    \o "_" \o strftime(d) \o ".zip"

\* lines 148-149
format_zip_filename(a, d) ==
    "SN_" \o kernel_version \o "_" \o a.target \o "_" \o build_type(a)
    \o "_" \o strftime(d) \o ".zip"

(***************************************************************************)
(* State.                                                                  *)
(***************************************************************************)
VARIABLES
    args,                \* the parsed command line (line 77)
    env0,                \* what was on disk and in PATH when main started
    pc,                  \* where main is: a stage, or how it ended
    stage,               \* the last stage main executed
    exc,                 \* the exception that left main, NoExc if none
    printed,             \* what main wrote to its standard output
    issued,              \* the external commands run, with what they did
    PATH,                \* os.environ["PATH"], as its pieces
    ak,                  \* the packaging tree AnyKernel3/
    toolchain,           \* whether toolchain/bin/clang exists
    out,                 \* the output directory out/
    logs,                \* the log files of the working directory
    akZip,               \* the archives inside AnyKernel3/
    cwdZip,              \* the archives of the working directory
    cwd,                 \* the process's current directory
    make_defconfig,      \* the configuration command, once composed
    zip_filename,        \* the archive's name, once computed
    kernel_version_info, \* the release string, once extracted
    now,                 \* datetime.now(), in ticks since main started
    start_time,          \* line 136
    elapsed_time,        \* line 142
    today,               \* <<datetime.today()>> of line 149, <<>> before
    times,               \* history: the clock at the end of each stage run
    run,                 \* which invocation of the script this is
    prev,                \* history: what the invocation before this one did
    call,                \* the call under test, when one function is run alone
    ret                  \* its result

mainVars == <<args, env0, pc, stage, exc, printed, issued, PATH, ak, toolchain,
              out, logs, akZip, cwdZip, cwd, make_defconfig, zip_filename,
              kernel_version_info, now, start_time, elapsed_time, today,
              times, run, prev>>
unitVars == <<call, ret>>
vars == <<args, env0, pc, stage, exc, printed, issued, PATH, ak, toolchain,
          out, logs, akZip, cwdZip, cwd, make_defconfig, zip_filename,
          kernel_version_info, now, start_time, elapsed_time, today, times,
          run, prev, call, ret>>

(***************************************************************************)
(* The inputs and environments tried.                                      *)
(***************************************************************************)
\* targets given on the command line: the valid ones and one that is not
TargetInputs == valid_targets \cup {"a52"}

Args == [target : TargetInputs, allow_dirty : BOOLEAN, oneui : BOOLEAN,
         aosp : BOOLEAN, no_ksu : BOOLEAN, permissive : BOOLEAN]

\* the installer files of the manifest (all of it but the staged image)
InstallerFiles == {manifest[i] : i \in 2..Len(manifest)}

AkTree(files, image) ==
    [exists |-> TRUE,
     files  |-> [f \in files \cup (IF image = "absent" THEN {} ELSE {"Image"})
                   |-> IF f = "Image" THEN image ELSE "asset"]]

AkAbsent == [exists |-> FALSE, files |-> <<>>]
AkComplete == AkTree(InstallerFiles, "prior")
AkIncomplete == AkTree(InstallerFiles \ {"tools/busybox"}, "absent")

\* AnyKernel3/ before the run: missing, an empty checkout, complete with the
\* image of an earlier run, or lacking one installer file
AkStates == {AkAbsent, AkTree({}, "absent"), AkComplete, AkIncomplete}

\* texts of include/generated/utsrelease.h: #define X "4.14" cut down to
\* a quoted release, and a header with no quoted string
UtsQuoted == <<QUOTE, 52, 46, 49, QUOTE>>
UtsUnquoted == <<52, 46, 49>>

OutAbsent == [exists |-> FALSE, stale |-> FALSE, uts |-> <<>>,
              image |-> "absent"]
OutPrior == [exists |-> TRUE, stale |-> TRUE, uts |-> <<UtsQuoted>>,
             image |-> "prior"]

Dates == {[year |-> 2024, month |-> 3, day |-> 9],
          [year |-> 2024, month |-> 11, day |-> 23]}

PriorArchive == <<[name |-> "Image", data |-> "prior"]>>

\* the archives an earlier run with the same target and variant left
PriorArchives(a) ==
    [n \in {format_zip_filename(a, d) : d \in Dates} |-> PriorArchive]

\* what the operating system may make of a command: it cannot be started,
\* or it runs and ends with an exit code and two streams of bytes
SpawnFailure == [spawned |-> FALSE, returncode |-> 0, stdout |-> <<>>,
                 stderr |-> <<>>]
Exited(code, o, e) ==
    [spawned |-> TRUE, returncode |-> code, stdout |-> o, stderr |-> e]

\* "clang version 1.2", as clang -v writes to stderr
ClangBanner == ClangVersionLiteral \o <<49, 46, 50>>

\* the outcomes tried: success, failure, and output that is not UTF-8
\* (a lone 0xFF, a truncated two-byte sequence)
GitProcs ==
    {SpawnFailure, Exited(0, <<>>, <<>>), Exited(1, <<>>, <<102>>),
     Exited(0, <<>>, <<255>>)}
ClangProbeProcs ==
    {SpawnFailure, Exited(0, <<>>, ClangBanner), Exited(1, <<>>, <<120>>),
     Exited(0, <<>>, <<255>>)}
ClangVersionProcs == ClangProbeProcs \cup {Exited(0, <<>>, <<120>>)}
MakeProcs ==
    {SpawnFailure, Exited(0, <<111>>, <<101>>), Exited(2, <<111>>, <<101>>),
     Exited(2, <<255>>, <<101>>), Exited(0, <<111>>, <<195>>)}

\* what git submodule update --init may leave of AnyKernel3/
FetchEffects(tree, proc) ==
    IF proc.spawned /\ proc.returncode = 0
    THEN {tree, AkTree(InstallerFiles, "absent")}
    ELSE {tree}

\* what make ... defconfig may leave of out/: the directory, once it ran
DefconfigEffects(o, proc) ==
    IF ~proc.spawned THEN {o} ELSE {[o EXCEPT !.exists = TRUE]}

\* what the build may leave of out/: when it fails, nothing new; when it
\* exits 0, nothing new, everything, or an image but a header without a
\* release string
CompileEffects(o, proc) ==
    IF ~proc.spawned THEN {o}
    ELSE IF proc.returncode # 0 THEN {[o EXCEPT !.exists = TRUE]}
    ELSE {[o EXCEPT !.exists = TRUE],
          [o EXCEPT !.exists = TRUE, !.uts = <<UtsQuoted>>, !.image = "built"],
          [o EXCEPT !.exists = TRUE, !.uts = <<UtsUnquoted>>,
                    !.image = "built"]}

\* before the first invocation there is none
NoPrev == [pc |-> "none"]

\* no function is run alone / the function run alone has not returned yet
NoCall == [fn |-> "none"]
NoRet == [done |-> FALSE]

(***************************************************************************)
(* main (lines 69-172), one action per stage.  Every action ends the       *)
(* stage: it moves pc to the next stage, or to "returned" (a return out of *)
(* main), "raised" (an exception left main) or "finished" (main ran to its *)
(* end).                                                                   *)
(***************************************************************************)
InitMain ==
    /\ args \in Args
    /\ pc = "Validate"
    /\ stage = "none"
    /\ exc = NoExc
    /\ printed = <<>>
    /\ issued = <<>>
    /\ PATH \in {<<"/usr/bin">>, toolchain_path \o <<pathsep, "/usr/bin">>}
    /\ ak \in AkStates
    /\ toolchain \in BOOLEAN
    /\ out \in {OutAbsent, OutPrior}
    /\ logs = <<>>
    /\ akZip = <<>>
    /\ cwdZip \in {<<>>, PriorArchives(args)}
    /\ cwd = "."
    /\ make_defconfig = <<>>
    /\ zip_filename = ""
    /\ kernel_version_info = <<>>
    /\ now = 0
    /\ start_time = 0
    /\ elapsed_time = 0
    /\ today = <<>>
    /\ times = <<>>
    /\ run = "first"
    /\ prev = NoPrev
    /\ env0 = [out |-> out, PATH |-> PATH, ak |-> ak, cwdZip |-> cwdZip,
               logs |-> logs, akZip |-> akZip]

Init == InitMain /\ call = NoCall /\ ret = NoRet

\* the stages of main in the order of its text
StageOrder ==
    <<"Validate", "Acquire", "CheckToolchain", "Verify", "Version",
      "PrepareEnv", "Clean", "Compose", "Defconfig", "Compile", "Release",
      "Stage", "Package", "Relocate", "Report">>
StageIndex(name) ==
    CHOOSE i \in 1..Len(StageOrder) : StageOrder[i] = name

\* how long a stage takes, in ticks of the clock: no two stages take the
\* same time, and no two stretches of consecutive stages either
Duration(name) == 2 ^ (StageIndex(name) - 1)

\* every stage takes its time on the clock and leaves its name
Step(name) ==
    /\ pc = name
    /\ stage' = name
    /\ now' = now + Duration(name)
    /\ times' = (name :> now') @@ times
    /\ UNCHANGED <<run, prev>>
    /\ UNCHANGED unitVars

Goto(next) == pc' = next /\ exc' = exc
Raise(e) == pc' = "raised" /\ exc' = e
Say(lines) == printed' = printed \o lines
Issue(command, proc) ==
    issued' = Append(issued, [command |-> command, proc |-> proc])

\* Validate without the test of line 79
Validate_NoConflictCheck ==
    /\ Step("Validate")
    /\ IF args.target \notin valid_targets
       THEN /\ Say(<<Line("Specify a valid target: a51/f41/m31s/m31/m21/gta4xl/gta4xlwifi")>>)
            /\ Goto("returned")
       ELSE /\ Say(<<>>)
            /\ Goto("Acquire")
    /\ UNCHANGED <<args, env0, today, issued, PATH, ak, toolchain, out, logs,
                   akZip, cwdZip, cwd, make_defconfig, zip_filename,
                   kernel_version_info, start_time, elapsed_time>>

\* Validate without the return of line 86
Validate_NoTargetReturn ==
    /\ Step("Validate")
    /\ IF args.oneui /\ args.aosp
       THEN /\ Say(<<Line("Both OneUI and AOSP flags cannot be defined at the same time.")>>)
            /\ Goto("returned")
       ELSE IF args.target \notin valid_targets
       THEN /\ Say(<<Line("Specify a valid target: a51/f41/m31s/m31/m21/gta4xl/gta4xlwifi")>>)
            /\ Goto("Acquire")
       ELSE /\ Say(<<>>)
            /\ Goto("Acquire")
    /\ UNCHANGED <<args, env0, today, issued, PATH, ak, toolchain, out, logs,
                   akZip, cwdZip, cwd, make_defconfig, zip_filename,
                   kernel_version_info, start_time, elapsed_time>>

\* lines 79-86
Validate ==
    /\ Step("Validate")
    /\ IF args.oneui /\ args.aosp
       THEN /\ Say(<<Line("Both OneUI and AOSP flags cannot be defined at the same time.")>>)
            /\ Goto("returned")
       ELSE IF args.target \notin valid_targets
       THEN /\ Say(<<Line("Specify a valid target: a51/f41/m31s/m31/m21/gta4xl/gta4xlwifi")>>)
            /\ Goto("returned")
       ELSE /\ Say(<<>>)
            /\ Goto("Acquire")
    /\ UNCHANGED <<args, env0, today, issued, PATH, ak, toolchain, out, logs,
                   akZip, cwdZip, cwd, make_defconfig, zip_filename,
                   kernel_version_info, start_time, elapsed_time>>

\* lines 97-98
Acquire ==
    /\ Step("Acquire")
    /\ IF file_exists(DOMAIN ak.files, "anykernel.sh")
       THEN /\ Goto("CheckToolchain")
            /\ UNCHANGED <<printed, issued, ak>>
       ELSE \E proc \in GitProcs :
            \E tree \in FetchEffects(ak, proc) :
              LET r == run_command(git_submodule_update, proc, None, None,
                                   logs)
              IN /\ Say(<<FileNotFoundLine("AnyKernel3/anykernel.sh")>>)
                 /\ Issue(git_submodule_update, proc)
                 /\ ak' = tree
                 /\ IF r.exc # NoExc THEN Raise(r.exc)
                    ELSE Goto("CheckToolchain")
    /\ UNCHANGED <<args, env0, today, PATH, toolchain, out, logs, akZip,
                   cwdZip, cwd, make_defconfig, zip_filename,
                   kernel_version_info, start_time, elapsed_time>>

\* CheckToolchain without the return of line 101
CheckToolchain_NoReturn ==
    /\ Step("CheckToolchain")
    /\ IF ~toolchain
       THEN Say(<<FileNotFoundLine("toolchain/bin/clang"),
                  Line("Toolchain must be available at " \o getcwd
                       \o "/toolchain")>>)
       ELSE Say(<<>>)
    /\ Goto("Verify")
    /\ UNCHANGED <<args, env0, today, issued, PATH, ak, toolchain, out, logs,
                   akZip, cwdZip, cwd, make_defconfig, zip_filename,
                   kernel_version_info, start_time, elapsed_time>>

\* CheckToolchain raising where line 101 returns
CheckToolchain_Raises ==
    /\ Step("CheckToolchain")
    /\ IF ~toolchain
       THEN /\ Say(<<FileNotFoundLine("toolchain/bin/clang"),
                     Line("Toolchain must be available at " \o getcwd
                          \o "/toolchain")>>)
            /\ Raise([type |-> "FileNotFoundError"])
       ELSE /\ Say(<<>>)
            /\ Goto("Verify")
    /\ UNCHANGED <<args, env0, today, issued, PATH, ak, toolchain, out, logs,
                   akZip, cwdZip, cwd, make_defconfig, zip_filename,
                   kernel_version_info, start_time, elapsed_time>>

\* CheckToolchain with lines 118-120 moved before line 99: the path is
\* extended before the toolchain is looked for
CheckToolchain_PreparesFirst ==
    /\ Step("CheckToolchain")
    /\ PATH' = prepend_toolchain(PATH, toolchain_path)
    /\ IF ~toolchain
       THEN /\ Say(<<FileNotFoundLine("toolchain/bin/clang"),
                       Line("Toolchain must be available at " \o getcwd
                            \o "/toolchain")>>)
            /\ Goto("returned")
       ELSE /\ Say(<<>>)
            /\ Goto("Verify")
    /\ UNCHANGED <<args, env0, today, issued, ak, toolchain, out, logs, akZip,
                   cwdZip, cwd, make_defconfig, zip_filename,
                   kernel_version_info, start_time, elapsed_time>>

\* lines 99-101
CheckToolchain ==
    /\ Step("CheckToolchain")
    /\ IF ~toolchain
       THEN /\ Say(<<FileNotFoundLine("toolchain/bin/clang"),
                       Line("Toolchain must be available at " \o getcwd
                            \o "/toolchain")>>)
            /\ Goto("returned")
       ELSE /\ Say(<<>>)
            /\ Goto("Verify")
    /\ UNCHANGED <<args, env0, today, issued, PATH, ak, toolchain, out, logs,
                   akZip, cwdZip, cwd, make_defconfig, zip_filename,
                   kernel_version_info, start_time, elapsed_time>>

\* Verify with the raise of line 61 left out: the failed probe is reported
\* and main goes on
Verify_SwallowsError ==
    /\ Step("Verify")
    /\ \E proc \in ClangProbeProcs :
         LET r == run_command(clang_v, proc, None, None, logs)
         IN /\ Issue(clang_v, proc)
            /\ IF r.exc.type = "CommandError"
               THEN Say(<<Line("Clang execution failed")>>) /\ Goto("Version")
               ELSE IF r.exc # NoExc
               THEN Say(<<>>) /\ Raise(r.exc)
               ELSE Say(<<>>) /\ Goto("Version")
    /\ UNCHANGED <<args, env0, today, PATH, ak, toolchain, out, logs, akZip,
                   cwdZip, cwd, make_defconfig, zip_filename,
                   kernel_version_info, start_time, elapsed_time>>

\* line 103 and ClangCompiler.verify_executable (lines 56-61)
Verify ==
    /\ Step("Verify")
    /\ \E proc \in ClangProbeProcs :
         LET r == run_command(clang_v, proc, None, None, logs)
         IN /\ Issue(clang_v, proc)
            /\ IF r.exc.type = "CommandError"
               THEN Say(<<Line("Clang execution failed")>>) /\ Raise(r.exc)
               ELSE IF r.exc # NoExc
               THEN Say(<<>>) /\ Raise(r.exc)
               ELSE Say(<<>>) /\ Goto("Version")
    /\ UNCHANGED <<args, env0, today, PATH, ak, toolchain, out, logs, akZip,
                   cwdZip, cwd, make_defconfig, zip_filename,
                   kernel_version_info, start_time, elapsed_time>>

\* lines 105-116, with ClangCompiler.get_version (lines 64-67): the banner
\* is looked up while the dictionary is built, before anything is printed
Version ==
    /\ Step("Version")
    /\ \E proc \in ClangVersionProcs :
         LET r == run_command(clang_v, proc, None, None, logs)
             m == extract_match(version_regex, r.stderr)
         IN /\ Issue(clang_v, proc)
            /\ IF r.exc # NoExc THEN Say(<<>>) /\ Raise(r.exc)
               ELSE IF m.exc # NoExc THEN Say(<<>>) /\ Raise(m.exc)
               ELSE /\ Say(display_info(
                        <<<<"Kernel Name", "Something New">>,
                          <<"Kernel Version", kernel_version>>,
                          <<"Build Type", build_type(args)>>,
                          <<"SELinux", IF args.permissive THEN "Permissive"
                                       ELSE "Enforcing">>,
                          <<"Device", args.target>>,
                          <<"With KernelSU", ~args.no_ksu>>,
                          <<"Using LLVM", TRUE>>,
                          <<"Toolchain Version", m.value>>>>))
                    /\ Goto("PrepareEnv")
    /\ UNCHANGED <<args, env0, today, PATH, ak, toolchain, out, logs, akZip,
                   cwdZip, cwd, make_defconfig, zip_filename,
                   kernel_version_info, start_time, elapsed_time>>

\* lines 118-120
PrepareEnv ==
    /\ Step("PrepareEnv")
    /\ PATH' = prepend_toolchain(PATH, toolchain_path)
    /\ Goto("Clean")
    /\ UNCHANGED <<args, env0, today, printed, issued, ak, toolchain, out,
                   logs, akZip, cwdZip, cwd, make_defconfig, zip_filename,
                   kernel_version_info, start_time, elapsed_time>>

\* Clean without the allow_dirty test of line 123
Clean_IgnoresAllowDirty ==
    /\ Step("Clean")
    /\ IF out.exists
       THEN /\ Say(<<Line("Cleaning build output...")>>)
            /\ out' = OutAbsent
       ELSE /\ Say(<<>>)
            /\ out' = out
    /\ Goto("Compose")
    /\ UNCHANGED <<args, env0, today, issued, PATH, ak, toolchain, logs, akZip,
                   cwdZip, cwd, make_defconfig, zip_filename,
                   kernel_version_info, start_time, elapsed_time>>

\* lines 122-125
Clean ==
    /\ Step("Clean")
    /\ IF out.exists /\ ~args.allow_dirty
       THEN /\ Say(<<Line("Cleaning build output...")>>)
            /\ out' = OutAbsent
       ELSE /\ Say(<<>>)
            /\ out' = out
    /\ Goto("Compose")
    /\ UNCHANGED <<args, env0, today, issued, PATH, ak, toolchain, logs, akZip,
                   cwdZip, cwd, make_defconfig, zip_filename,
                   kernel_version_info, start_time, elapsed_time>>

\* Compose with line 136 moved before line 127: the clock is read before
\* the commands are composed
Compose_ClockFirst ==
    /\ Step("Compose")
    /\ make_defconfig' = compose_defconfig(args)
    /\ start_time' = now
    /\ Goto("Defconfig")
    /\ UNCHANGED <<args, env0, today, printed, issued, PATH, ak, toolchain,
                   out, logs, akZip, cwdZip, cwd, zip_filename,
                   kernel_version_info, elapsed_time>>

\* lines 127-136
Compose ==
    /\ Step("Compose")
    /\ make_defconfig' = compose_defconfig(args)
    /\ start_time' = now'
    /\ Goto("Defconfig")
    /\ UNCHANGED <<args, env0, today, printed, issued, PATH, ak, toolchain,
                   out, logs, akZip, cwdZip, cwd, zip_filename,
                   kernel_version_info, elapsed_time>>

LogLine(stdout_log_file, stderr_log_file) ==
    Line("Output log files: " \o stdout_log_file \o ", " \o stderr_log_file)

\* lines 137-138
Defconfig ==
    /\ Step("Defconfig")
    /\ \E proc \in MakeProcs :
       \E o \in DefconfigEffects(out, proc) :
         LET r == run_command(make_defconfig, proc,
                              "make_defconfig_stdout.log",
                              "make_defconfig_stderr.log", logs)
         IN /\ Issue(make_defconfig, proc)
            /\ out' = o
            /\ logs' = r.files
            /\ Say(<<Line("Running make defconfig...")>>
                   \o (IF r.printed
                       THEN <<LogLine("make_defconfig_stdout.log",
                                      "make_defconfig_stderr.log")>>
                       ELSE <<>>))
            /\ IF r.exc # NoExc THEN Raise(r.exc) ELSE Goto("Compile")
    /\ UNCHANGED <<args, env0, today, PATH, ak, toolchain, akZip, cwdZip, cwd,
                   make_defconfig, zip_filename, kernel_version_info,
                   start_time, elapsed_time>>

\* lines 139-142
Compile ==
    /\ Step("Compile")
    /\ \E proc \in MakeProcs :
       \E o \in CompileEffects(out, proc) :
         LET r == run_command(make_common, proc,
                              "make_common_stdout.log",
                              "make_common_stderr.log", logs)
         IN /\ Issue(make_common, proc)
            /\ out' = o
            /\ logs' = r.files
            /\ Say(<<Line("Building the kernel...")>>
                   \o (IF r.printed
                       THEN <<LogLine("make_common_stdout.log",
                                      "make_common_stderr.log")>>
                       ELSE <<>>)
                   \o (IF r.exc = NoExc THEN <<Line("Build complete")>>
                       ELSE <<>>))
            /\ IF r.exc # NoExc
               THEN Raise(r.exc) /\ UNCHANGED elapsed_time
               ELSE Goto("Release") /\ elapsed_time' = now' - start_time
    /\ UNCHANGED <<args, env0, today, PATH, ak, toolchain, akZip, cwdZip, cwd,
                   make_defconfig, zip_filename, kernel_version_info,
                   start_time>>

\* lines 144-145
Release ==
    /\ Step("Release")
    /\ IF ~out.exists \/ out.uts = <<>>
       THEN /\ Raise([type |-> "FileNotFoundError"])
            /\ UNCHANGED kernel_version_info
       ELSE LET m == extract_match(release_regex, out.uts[1])
            IN IF m.exc # NoExc
               THEN Raise(m.exc) /\ UNCHANGED kernel_version_info
               ELSE Goto("Stage") /\ kernel_version_info' = m.value
    /\ UNCHANGED <<args, env0, today, printed, issued, PATH, ak, toolchain,
                   out, logs, akZip, cwdZip, cwd, make_defconfig, zip_filename,
                   start_time, elapsed_time>>

\* lines 147-149
Stage ==
    /\ Step("Stage")
    /\ IF ~out.exists \/ out.image = "absent" \/ ~ak.exists
       THEN /\ Raise([type |-> "FileNotFoundError"])
            /\ UNCHANGED <<ak, zip_filename, today>>
       ELSE \E date \in Dates :
             /\ ak' = [ak EXCEPT !.files = WriteFile(@, "Image", out.image)]
             /\ today' = <<date>>
             /\ zip_filename' = format_zip_filename(args, date)
             /\ Goto("Package")
    /\ UNCHANGED <<args, env0, printed, issued, PATH, toolchain, out, logs,
                   akZip, cwdZip, cwd, make_defconfig, kernel_version_info,
                   start_time, elapsed_time>>

\* lines 150-160
Package ==
    /\ Step("Package")
    /\ cwd' = "AnyKernel3"
    /\ LET z == create_zip(zip_filename, manifest, ak.files)
       IN /\ akZip' = WriteFile(akZip, zip_filename, z.archive)
          /\ IF z.exc # NoExc
             THEN /\ Say(<<Line("Creating zip: " \o zip_filename \o " with "
                                \o ToString(Len(manifest)) \o " files")>>)
                  /\ Raise(z.exc)
             ELSE /\ Say(<<Line("Creating zip: " \o zip_filename \o " with "
                                \o ToString(Len(manifest)) \o " files"),
                           Line("Zip creation complete")>>)
                  /\ Goto("Relocate")
    /\ UNCHANGED <<args, env0, today, issued, PATH, ak, toolchain, out, logs,
                   cwdZip, make_defconfig, zip_filename, kernel_version_info,
                   start_time, elapsed_time>>

\* a directory without one of its files
Without(dir, name) == [n \in DOMAIN dir \ {name} |-> dir[n]]

\* Relocate with the move of lines 163-166 left out: the old archive is
\* removed and nothing takes its place
Relocate_OnlyRemoves ==
    /\ Step("Relocate")
    /\ cwdZip' = Without(cwdZip, zip_filename)
    /\ akZip' = akZip
    /\ cwd' = "."
    /\ Goto("Report")
    /\ UNCHANGED <<args, env0, today, printed, issued, PATH, ak, toolchain,
                   out, logs, make_defconfig, zip_filename,
                   kernel_version_info, start_time, elapsed_time>>

\* lines 161-167
Relocate ==
    /\ Step("Relocate")
    /\ cwdZip' = WriteFile(Without(cwdZip, zip_filename), zip_filename,
                           akZip[zip_filename])
    /\ akZip' = Without(akZip, zip_filename)
    /\ cwd' = "."
    /\ Goto("Report")
    /\ UNCHANGED <<args, env0, today, printed, issued, PATH, ak, toolchain,
                   out, logs, make_defconfig, zip_filename,
                   kernel_version_info, start_time, elapsed_time>>

\* lines 168-172
Report ==
    /\ Step("Report")
    /\ Say(display_info(<<<<"OUT_ZIPNAME", zip_filename>>,
                          <<"KERNEL_VERSION", kernel_version_info>>,
                          <<"ELAPSED_TIME", elapsed_time>>>>))
    /\ Goto("finished")
    /\ UNCHANGED <<args, env0, today, issued, PATH, ak, toolchain, out, logs,
                   akZip, cwdZip, cwd, make_defconfig, zip_filename,
                   kernel_version_info, start_time, elapsed_time>>

Next ==
    \/ Validate
    \/ Acquire
    \/ CheckToolchain
    \/ Verify
    \/ Version
    \/ PrepareEnv
    \/ Clean
    \/ Compose
    \/ Defconfig
    \/ Compile
    \/ Release
    \/ Stage
    \/ Package
    \/ Relocate
    \/ Report

Spec == Init /\ [][Next]_vars

\* main has ended
Ended == pc \in {"returned", "raised", "finished"}

(***************************************************************************)
(* The script run twice (lines 174-175), the second time in a new process  *)
(* started from the same shell in the same directory, with the same target *)
(* and oneui flag and any other flags.  The disk is as the first one       *)
(* left it, and what that one built is now of an earlier run; PATH and the *)
(* current directory are the shell's again.                                *)
(***************************************************************************)
AgedData(d) == IF d = "built" THEN "prior" ELSE d
AgedArchives(dir) ==
    [n \in DOMAIN dir |->
       [i \in 1..Len(dir[n]) |-> [dir[n][i] EXCEPT !.data = AgedData(@)]]]
AgedTree(tree) ==
    [tree EXCEPT !.files = [f \in DOMAIN @ |-> AgedData(@[f])]]
AgedOut(o) ==
    IF o.exists THEN [o EXCEPT !.stale = TRUE, !.image = AgedData(@)] ELSE o

\* the first invocation runs where the toolchain and the packaging tree
\* are in place, on two of the targets
PairTargets == {"a51", "gta4xlwifi"}

InitPair ==
    /\ Init
    /\ args.target \in PairTargets
    /\ ~(args.oneui /\ args.aosp)
    /\ toolchain
    /\ ak = AkComplete
    /\ PATH = <<"/usr/bin">>
    /\ out = OutAbsent
    /\ cwdZip = <<>>

Rerun ==
    /\ run = "first"
    /\ Ended
    /\ run' = "second"
    /\ prev' = [pc |-> pc, args |-> args,
                commands |-> [i \in 1..Len(issued) |-> issued[i].command],
                zip_filename |-> zip_filename, today |-> today,
                cwdZip |-> cwdZip]
    /\ \E a \in Args :
         /\ a.target = args.target
         /\ a.oneui = args.oneui
         /\ args' = a
    /\ pc' = "Validate"
    /\ stage' = "none"
    /\ exc' = NoExc
    /\ printed' = <<>>
    /\ issued' = <<>>
    /\ PATH' = env0.PATH
    /\ cwd' = "."
    /\ ak' = AgedTree(ak)
    /\ out' = AgedOut(out)
    /\ akZip' = AgedArchives(akZip)
    /\ cwdZip' = AgedArchives(cwdZip)
    /\ make_defconfig' = <<>>
    /\ zip_filename' = ""
    /\ kernel_version_info' = <<>>
    /\ now' = 0
    /\ start_time' = 0
    /\ elapsed_time' = 0
    /\ today' = <<>>
    /\ times' = <<>>
    /\ env0' = [out |-> out', PATH |-> PATH', ak |-> ak', cwdZip |-> cwdZip',
                logs |-> logs, akZip |-> akZip']
    /\ UNCHANGED <<toolchain, logs, call, ret>>

NextPair == Next \/ Rerun

SpecPair == InitPair /\ [][NextPair]_vars

(***************************************************************************)
(* The functions run alone, each on inputs drawn from a bounded set: main  *)
(* stays where it is, call holds the arguments and ret the result.         *)
(***************************************************************************)
IdleMainAt(path) ==
    /\ args = [target |-> "a51", allow_dirty |-> FALSE, oneui |-> FALSE,
               aosp |-> FALSE, no_ksu |-> FALSE, permissive |-> FALSE]
    /\ pc = "idle"
    /\ stage = "none"
    /\ exc = NoExc
    /\ printed = <<>>
    /\ issued = <<>>
    /\ PATH = path
    /\ ak = AkAbsent
    /\ toolchain = FALSE
    /\ out = OutAbsent
    /\ logs = <<>>
    /\ akZip = <<>>
    /\ cwdZip = <<>>
    /\ cwd = "."
    /\ make_defconfig = <<>>
    /\ zip_filename = ""
    /\ kernel_version_info = <<>>
    /\ now = 0
    /\ start_time = 0
    /\ elapsed_time = 0
    /\ today = <<>>
    /\ times = <<>>
    /\ run = "first"
    /\ prev = NoPrev
    /\ env0 = [out |-> out, PATH |-> PATH, ak |-> ak, cwdZip |-> cwdZip,
               logs |-> logs, akZip |-> akZip]

IdleMain == IdleMainAt(<<"/usr/bin">>)

\* all sequences over S of length at most n
SeqsUpTo(S, n) == UNION {[1..k -> S] : k \in 0..n}

Returned(result) == [done |-> TRUE, result |-> result]

\* run_command alone: any exit code and streams over a few bytes (an ASCII
\* letter and the two bytes of U+00E9, neither of which is text on its own),
\* log paths omitted, empty or named, and a log file that may exist already
OutputBytes == {65, 195, 169}
ExitCodes == {0, 1, 2}
LogPaths == {None, "", "a.log", "b.log"}

InitRun ==
    /\ IdleMain
    /\ ret = NoRet
    /\ \E proc \in {SpawnFailure}
                   \cup {Exited(c, o, e) : c \in ExitCodes,
                                           o \in SeqsUpTo(OutputBytes, MaxOut),
                                           e \in SeqsUpTo(OutputBytes, MaxOut)} :
       \E so \in LogPaths, se \in LogPaths :
       \E files \in {<<>>, ("a.log" :> <<111, 108, 100>>)} :
         call = [fn |-> "run_command", command |-> <<"cmd">>, proc |-> proc,
                 stdout_log_file |-> so, stderr_log_file |-> se,
                 files |-> files]

CallRunCommand ==
    /\ call.fn = "run_command"
    /\ ~ret.done
    /\ ret' = Returned(run_command(call.command, call.proc,
                                   call.stdout_log_file,
                                   call.stderr_log_file, call.files))
    /\ UNCHANGED <<call, mainVars>>

SpecRun == InitRun /\ [][CallRunCommand]_vars

\* extract_match alone: the release pattern on every short text of quotes,
\* letters and newlines; the version pattern on texts with and without the
\* "clang version " literal, a prefix that may hold a newline and a suffix of
\* digits, dots and letters
ReleaseTexts == SeqsUpTo({QUOTE, 97, NEWLINE}, MaxText)
VersionTexts ==
    {pre \o mid \o suf :
        pre \in SeqsUpTo({NEWLINE, 120}, 2),
        mid \in {ClangVersionLiteral, <<>>},
        suf \in SeqsUpTo({49, DOT, 120}, MaxText - 1)}

InitExtract ==
    /\ IdleMain
    /\ ret = NoRet
    /\ \/ \E text \in ReleaseTexts :
            call = [fn |-> "extract_match", regex |-> release_regex,
                    text |-> text]
       \/ \E text \in VersionTexts :
            call = [fn |-> "extract_match", regex |-> version_regex,
                    text |-> text]

CallExtractMatch ==
    /\ call.fn = "extract_match"
    /\ ~ret.done
    /\ ret' = Returned(extract_match(call.regex, call.text))
    /\ UNCHANGED <<call, mainVars>>

SpecExtract == InitExtract /\ [][CallExtractMatch]_vars

\* create_zip alone: every list of at most MaxFiles names, any of the files
\* missing, and an archive that may exist already at the archive's path
ZipNames == {"a", "b", "c"}
OldArchive == <<[name |-> "old", data |-> "old"]>>

InitZip ==
    /\ IdleMain
    /\ ret = NoRet
    /\ \E files \in SeqsUpTo(ZipNames, MaxFiles) :
       \E present \in SUBSET ZipNames :
       \E prior \in {<<>>, ("x.zip" :> OldArchive)} :
         call = [fn |-> "create_zip", zip_filename |-> "x.zip",
                 files |-> files,
                 dir |-> [n \in present |-> "data of " \o n] @@ prior]

CallCreateZip ==
    /\ call.fn = "create_zip"
    /\ ~ret.done
    /\ ret' = Returned(create_zip(call.zip_filename, call.files, call.dir))
    /\ UNCHANGED <<call, mainVars>>

SpecZip == InitZip /\ [][CallCreateZip]_vars

\* lines 118-120 alone, as often as main runs in one process: the working
\* directory is an ordinary one or one with the separator in its name, and
\* the path main finds has up to MaxPath entries, the toolchain directory
\* and the empty entry among them
WorkingDirectories == {TextOf(getcwd), <<"/work/a", pathsep, "b">>}
PathEntries ==
    {"", "/usr/bin", "/kernel/toolchain/bin", "b/toolchain/bin"}

\* pathsep.join(entries)
RECURSIVE join(_)
join(entries) ==
    IF Len(entries) = 1 THEN TextOf(Head(entries))
    ELSE TextOf(Head(entries)) \o <<pathsep>> \o join(Tail(entries))

InitPath ==
    /\ \E entries \in SeqsUpTo(PathEntries, MaxPath) \ {<<>>} :
         IdleMainAt(join(entries))
    /\ ret = NoRet
    /\ \E dir \in WorkingDirectories :
         call = [fn |-> "prepend_toolchain", tp |-> toolchain_path_of(dir),
                 runs |-> 0]

\* one more run reaches line 118; ret keeps the path it found
CallPrependToolchain ==
    /\ call.fn = "prepend_toolchain"
    /\ call.runs < MaxRuns
    /\ PATH' = prepend_toolchain(PATH, call.tp)
    /\ call' = [call EXCEPT !.runs = @ + 1]
    /\ ret' = Returned(PATH)
    /\ UNCHANGED <<args, env0, today, pc, stage, exc, printed, issued, ak,
                   toolchain, out, logs, akZip, cwdZip, cwd, make_defconfig,
                   zip_filename, kernel_version_info, now, start_time,
                   elapsed_time, times, run, prev>>

SpecPath == InitPath /\ [][CallPrependToolchain]_vars

(***************************************************************************)
(* The claims.                                                             *)
(***************************************************************************)
Range(q) == {q[i] : i \in 1..Len(q)}

\* the configuration passes validation, in the claims' own words
ValidConfig ==
    /\ ~(args.oneui /\ args.aosp)
    /\ args.target \in {"a51", "f41", "m31s", "m31", "m21", "gta4xl",
                        "gta4xlwifi"}

ConflictLine ==
    Line("Both OneUI and AOSP flags cannot be defined at the same time.")
TargetLine ==
    Line("Specify a valid target: a51/f41/m31s/m31/m21/gta4xl/gta4xlwifi")
ToolchainLine ==
    Line("Toolchain must be available at " \o getcwd \o "/toolchain")

\* a make command (configuration generation or compilation) was issued
MakeIssued == \E i \in 1..Len(issued) : issued[i].command[1] = "make"

\* the submodule fetch was issued
FetchIssued == issued # <<>> /\ issued[1].command[1] = "git"

\* run_command raises for this outcome: the process cannot be started, exits
\* nonzero, or writes bytes that are not UTF-8
Raises(proc) ==
    \/ ~proc.spawned
    \/ proc.returncode # 0
    \/ ~decode(proc.stdout).ok
    \/ ~decode(proc.stderr).ok

\* C1: with both variant flags set, whatever the target and the other flags,
\* the run is rejected at validation (main returns from the Validate stage
\* after the diagnostic) and no external process is ever invoked.
C1_ConflictingVariantsRejected ==
    (args.oneui /\ args.aosp) =>
        /\ issued = <<>>
        /\ pc \in {"Validate", "returned"}
        /\ pc = "returned" =>
              /\ stage = "Validate"
              /\ exc = NoExc
              /\ printed = <<ConflictLine>>

\* C1 happens: a run with both flags, a valid target and everything a build
\* needs on disk has been rejected.
C1_Witness ==
    /\ args.oneui /\ args.aosp
    /\ args.target = "m21"
    /\ toolchain
    /\ file_exists(DOMAIN ak.files, "anykernel.sh")
    /\ pc = "returned"

\* C2: with a target outside a51, f41, m31s, m31, m21, gta4xl, gta4xlwifi the
\* run is rejected at validation and no external process is ever invoked.
C2_UnknownTargetRejected ==
    (args.target \notin {"a51", "f41", "m31s", "m31", "m21", "gta4xl",
                         "gta4xlwifi"}) =>
        /\ issued = <<>>
        /\ pc \in {"Validate", "returned"}
        /\ pc = "returned" =>
              /\ stage = "Validate"
              /\ exc = NoExc
              /\ printed \in {<<ConflictLine>>, <<TargetLine>>}
              /\ ~(args.oneui /\ args.aosp) => printed = <<TargetLine>>

\* C2 happens: a run with an unknown target, no flag conflict and everything
\* a build needs on disk has been rejected.
C2_Witness ==
    /\ args.target = "a52"
    /\ ~args.oneui /\ ~args.aosp
    /\ toolchain
    /\ file_exists(DOMAIN ak.files, "anykernel.sh")
    /\ pc = "returned"
    /\ printed = <<TargetLine>>

\* the compilation command was run, it exited nonzero, and main has ended
CompileFailed ==
    /\ stage = "Compile"
    /\ pc \in {"raised", "returned", "finished"}
    /\ issued[Len(issued)].proc.spawned
    /\ issued[Len(issued)].proc.returncode # 0

\* the log file holds the text of the stream the process wrote
LogHolds(path, bytes) ==
    /\ path \in DOMAIN logs
    /\ decode(bytes).ok
    /\ logs[path] = decode(bytes).text

\* C3: when the compilation command exits nonzero (configuration generation
\* having succeeded), main ends by raising CommandError, the two
\* configuration logs and the two compilation logs exist and hold the
\* captured output, and no archive is created in AnyKernel3/ or moved to the
\* working directory.
C3_CompileFailureLeavesLogs ==
    CompileFailed =>
        LET conf == issued[Len(issued) - 1].proc
            comp == issued[Len(issued)].proc
        IN  /\ pc = "raised"
            /\ exc.type = "CommandError"
            /\ LogHolds("make_defconfig_stdout.log", conf.stdout)
            /\ LogHolds("make_defconfig_stderr.log", conf.stderr)
            /\ LogHolds("make_common_stdout.log", comp.stdout)
            /\ LogHolds("make_common_stderr.log", comp.stderr)
            /\ akZip = env0.akZip
            /\ cwdZip = env0.cwdZip

\* C4 as claimed (for a configuration that passes validation): with the
\* toolchain compiler absent, main ends by returning from the dependency
\* check with the diagnostic that names the toolchain path, and no make
\* command is ever issued.
C4_Original ==
    (ValidConfig /\ ~toolchain) =>
        /\ ~MakeIssued
        /\ Ended =>
              /\ pc = "returned"
              /\ stage = "CheckToolchain"
              /\ ToolchainLine \in Range(printed)

\* C4 amended: with the toolchain compiler absent and a valid configuration,
\* no make command is ever issued; main returns from the dependency check
\* with the diagnostic naming the toolchain path when AnyKernel3/anykernel.sh
\* is present or its fetch returns, and when run_command raises for the fetch
\* main ends in the fetch with that exception and without that diagnostic.
C4_MissingToolchainStops ==
    (ValidConfig /\ ~toolchain) =>
        /\ ~MakeIssued
        /\ pc \in {"Validate", "Acquire", "CheckToolchain", "returned",
                   "raised"}
        /\ Ended =>
              IF FetchIssued /\ Raises(issued[1].proc)
              THEN /\ pc = "raised"
                   /\ stage = "Acquire"
                   /\ ToolchainLine \notin Range(printed)
              ELSE /\ pc = "returned"
                   /\ stage = "CheckToolchain"
                   /\ exc = NoExc
                   /\ ToolchainLine \in Range(printed)
                   /\ Len(issued) <= 1

\* C4 happens: the toolchain is absent, the fetch ran and returned, and main
\* stopped at the dependency check.
C4_Witness ==
    /\ ValidConfig /\ ~toolchain
    /\ FetchIssued /\ ~Raises(issued[1].proc)
    /\ pc = "returned"
    /\ stage = "CheckToolchain"

\* the tail of a configuration command is what C5 says it is
EndsAsClaimed(c) ==
    LET base == "exynos9611-" \o args.target \o "_defconfig"
        at == {i \in 1..Len(c) : c[i] = base}
        rank(o) == IF o = "oneui.config" THEN 1
                   ELSE IF o = "permissive.config" THEN 2 ELSE 3
    IN  /\ Cardinality(at) = 1
        /\ LET b == CHOOSE i \in at : TRUE
               ov == Slice(c, b + 1, Len(c))
           IN /\ Len(ov) >= 1
              /\ ov[Len(ov)] = "no-ksu.config"
              /\ Range(ov) \subseteq {"oneui.config", "permissive.config",
                                      "no-ksu.config"}
              /\ ("oneui.config" \in Range(ov)) <=> args.oneui
              /\ ("permissive.config" \in Range(ov)) <=> args.permissive
              /\ \A i \in 1..Len(ov) : \A j \in 1..Len(ov) :
                    i < j => rank(ov[i]) < rank(ov[j])

\* C5: for every valid configuration the configuration-generation command
\* ends with exynos9611-<target>_defconfig followed by oneui.config iff the
\* non-default variant is requested, then permissive.config iff permissive is
\* requested, then no-ksu.config last, and no other overlay.
C5_OverlayOrder ==
    /\ stage = "Compose" => EndsAsClaimed(make_defconfig)
    /\ stage = "Defconfig" =>
          /\ ValidConfig
          /\ issued[Len(issued)].command = make_defconfig
          /\ EndsAsClaimed(issued[Len(issued)].command)

\* C5 happens: scenario B, target a51 with the variant and permissive flags,
\* has issued its configuration command.
C5_Witness ==
    /\ stage = "Defconfig"
    /\ args.target = "a51" /\ args.oneui /\ args.permissive
    /\ issued[Len(issued)].command[1] = "make"

\* C6: when main is about to issue the configuration command, the prior
\* output directory has been removed if allow-dirty is not set, and is left
\* as it was found if allow-dirty is set.
C6_CleanBeforeConfig ==
    pc = "Defconfig" =>
        /\ ~args.allow_dirty => (~out.exists /\ ~out.stale)
        /\ args.allow_dirty => out = env0.out
        /\ ~MakeIssued

\* C6 happens: a run without allow-dirty that found a prior output directory
\* is about to issue the configuration command.
C6_Witness ==
    /\ pc = "Defconfig"
    /\ ~args.allow_dirty
    /\ env0.out.exists /\ env0.out.stale

\* the file holds the text of the stream, as far as the bytes are text
FileHolds(files, path, bytes) ==
    /\ path \in DOMAIN files
    /\ decode(bytes).ok
    /\ files[path] = decode(bytes).text

\* C7: run_command, for any command and log paths: when the process exits 0
\* it returns the captured stdout and stderr without raising; when it exits
\* nonzero it raises CommandError carrying the exit code, after every
\* requested log file was written with the output of its stream.  (A path is
\* requested when it is neither None nor empty; a path given for both
\* streams holds the stream written last, stderr.)
C7_RunCommandContract ==
    (call.fn = "run_command" /\ ret.done /\ call.proc.spawned) =>
        LET p == call.proc
            r == ret.result
            so == call.stdout_log_file
            se == call.stderr_log_file
        IN  /\ p.returncode = 0 =>
                  /\ r.exc = NoExc
                  /\ decode(p.stdout).ok /\ r.stdout = decode(p.stdout).text
                  /\ decode(p.stderr).ok /\ r.stderr = decode(p.stderr).text
            /\ p.returncode # 0 =>
                  /\ r.exc.type = "CommandError"
                  /\ r.exc.returncode = p.returncode
                  /\ Truthy(se) => FileHolds(r.files, se, p.stderr)
                  /\ (Truthy(so) /\ so # se) =>
                        FileHolds(r.files, so, p.stdout)

\* C8: extract_match, for any pattern and text: with a match it returns the
\* first captured group; without one it raises the error it builds on line
\* 38, AssertionError, and never another error or a value.
C8_ExtractContract ==
    (call.fn = "extract_match" /\ ret.done) =>
        LET m == re_search(call.regex, call.text)
        IN  IF m.found
            THEN ret.result.exc = NoExc /\ ret.result.value = m.group1
            ELSE ret.result.exc.type = "AssertionError"

\* the archive create_zip would hold had it stopped at the first missing file
PartialArchive(files, dir) ==
    LET k == SetMin({i \in 1..Len(files) : files[i] \notin DOMAIN dir})
    IN  [i \in 1..(k - 1) |-> [name |-> files[i], data |-> dir[files[i]]]]

\* C9: create_zip, for any file list: when every listed file exists the
\* archive at the target path holds exactly the listed files, in order; when
\* one is missing it fails and no partial archive, holding only the files
\* listed before the missing one, is left at the archive path.
C9_ZipContract ==
    (call.fn = "create_zip" /\ ret.done) =>
        LET r == ret.result
            files == call.files
            z == call.zip_filename
        IN  IF \A i \in 1..Len(files) : files[i] \in DOMAIN call.dir
            THEN /\ r.exc = NoExc
                 /\ z \in DOMAIN r.dir
                 /\ Len(r.dir[z]) = Len(files)
                 /\ \A i \in 1..Len(files) :
                       r.dir[z][i] = [name |-> files[i],
                                      data |-> call.dir[files[i]]]
            ELSE /\ r.exc # NoExc
                 /\ ~(/\ z \in DOMAIN r.dir
                      /\ r.dir[z] = PartialArchive(files, call.dir))

\* C10 as claimed: whenever the toolchain compiler is absent, whatever the
\* state of AnyKernel3/ and the outcome of its fetch, main ends by returning
\* after a diagnostic, and no exception reaches the caller.
C10_Original ==
    (~toolchain /\ Ended) =>
        /\ pc = "returned"
        /\ exc = NoExc
        /\ printed # <<>>

\* C10 amended: whenever the toolchain compiler is absent, main ends by
\* returning after a diagnostic and no exception reaches the caller, except
\* when the configuration is valid, AnyKernel3/anykernel.sh is missing and
\* run_command raises for the fetch: then that exception reaches the caller.
C10_SoftTerminationUnlessFetchRaises ==
    (~toolchain /\ Ended) =>
        IF FetchIssued /\ Raises(issued[1].proc)
        THEN /\ pc = "raised"
             /\ exc.type \in {"OSError", "CommandError", "UnicodeDecodeError"}
             /\ ValidConfig
             /\ ~file_exists(DOMAIN env0.ak.files, "anykernel.sh")
        ELSE /\ pc = "returned"
             /\ exc = NoExc
             /\ printed[Len(printed)] \in
                    {ConflictLine, TargetLine, ToolchainLine}

\* C10 happens: with the toolchain absent and AnyKernel3/ missing, the fetch
\* ran and returned, and main ended without an exception.
C10_Witness ==
    /\ ~toolchain
    /\ ~env0.ak.exists
    /\ FetchIssued /\ ~Raises(issued[1].proc)
    /\ Ended
    /\ exc = NoExc

\* what a run can change outside its own variables is as main found it
Untouched ==
    /\ PATH = env0.PATH
    /\ out = env0.out
    /\ logs = env0.logs
    /\ ak = env0.ak
    /\ akZip = env0.akZip
    /\ cwdZip = env0.cwdZip
    /\ cwd = "."

\* C11: a run whose configuration fails validation (both variant flags, or
\* a target outside the allow-list) has no side effects: from its start to
\* its end the command-search path, the output directory, the log files, the
\* packaging tree with its archives, the working directory and any prior
\* archive there are as main found them, and the run ends by returning from
\* the Validate stage.
C11_RejectedRunTouchesNothing ==
    ~ValidConfig =>
        /\ Untouched
        /\ issued = <<>>
        /\ Ended => (pc = "returned" /\ stage = "Validate")

\* C11 happens: a rejected run has ended where a later stage would have had
\* a prior output directory to clean, a path to extend and a prior archive
\* to replace.
C11_Witness ==
    /\ ~ValidConfig
    /\ pc = "returned"
    /\ stage = "Validate"
    /\ env0.out.exists /\ ~args.allow_dirty
    /\ env0.PATH = <<"/usr/bin">>
    /\ env0.cwdZip # <<>>
    /\ toolchain

\* the process ran and exited nonzero
ExitedNonzero(proc) == proc.spawned /\ proc.returncode # 0

\* the outcomes, of those the external processes can have, for which
\* run_command raises
RaisingProcs ==
    {proc \in GitProcs \cup ClangProbeProcs \cup ClangVersionProcs
                \cup MakeProcs : Raises(proc)}

\* the commands main issues after the fetch, in the order of its text
CommandOrder == <<clang_v, clang_v, compose_defconfig(args), make_common>>

\* the stages that have run, and how many of the commands they issue: one
\* each in Verify, Version, Defconfig and Compile
StagesRun == DOMAIN times
CommandsRun ==
    Cardinality(StagesRun \cap {"Verify", "Version", "Defconfig", "Compile"})

\* the first n stages of main's text, and the time they take when each
\* runs once
FirstStages(n) == {StageOrder[i] : i \in 1..n}
TimeOfFirst(n) == 2 ^ n - 1

\* nothing of release extraction, staging, packaging or relocation happened
NothingPackaged ==
    /\ kernel_version_info = <<>>
    /\ zip_filename = ""
    /\ "Image" \in DOMAIN ak.files =>
          /\ "Image" \in DOMAIN env0.ak.files
          /\ ak.files["Image"] = env0.ak.files["Image"]
    /\ akZip = env0.akZip
    /\ cwdZip = env0.cwdZip

\* C12: the stages run in the strict order of main's text, each at most
\* once, and a failure is terminal.  While main is at a stage, exactly the
\* stages before it have run, each once and without an exception.  The
\* commands issued are the fetch (if any) followed by a prefix of compiler
\* probe, version probe, configuration generation, compilation: each is
\* issued in its own stage, after every earlier command returned without
\* raising, and each make command at most once.  Once a command exited
\* nonzero it is the last command of the run, the run has ended with an
\* exception in that stage, and no release extraction, staging or packaging
\* has been done.
C12_StrictOrderFailureTerminal ==
    LET k == IF FetchIssued THEN 1 ELSE 0
        n == Len(issued)
        done == Cardinality(StagesRun)
    IN /\ StagesRun = FirstStages(done)
       /\ now = TimeOfFirst(done)
       /\ done > 0 => stage = StageOrder[done]
       /\ pc \in Range(StageOrder) =>
             /\ done = StageIndex(pc) - 1
             /\ exc = NoExc
       /\ Ended => done > 0
       /\ FetchIssued => "Acquire" \in StagesRun
       /\ n - k = CommandsRun
       /\ \A i \in (k + 1)..n : issued[i].command = CommandOrder[i - k]
       /\ \A i, j \in 1..n :
             (issued[i].command[1] = "make"
                /\ issued[i].command = issued[j].command) => i = j
       /\ \A i \in 1..(n - 1) : issued[i].proc \notin RaisingProcs
       /\ \A i \in 1..n :
             ExitedNonzero(issued[i].proc) =>
                /\ i = n
                /\ pc = "raised"
                /\ exc.type \in {"CommandError", "UnicodeDecodeError"}
                /\ stage \in {"Acquire", "Verify", "Version", "Defconfig",
                              "Compile"}
                /\ NothingPackaged

\* C12 happens: configuration generation returned and compilation exited
\* nonzero, which ended the run in the Compile stage.
C12_Witness ==
    /\ pc = "raised"
    /\ stage = "Compile"
    /\ Len(issued) >= 4
    /\ issued[Len(issued)].command = make_common
    /\ ExitedNonzero(issued[Len(issued)].proc)
    /\ issued[Len(issued) - 1].command = compose_defconfig(args)
    /\ ~Raises(issued[Len(issued) - 1].proc)

\* the archive this run builds from the packaging tree
NewArchive == create_zip(zip_filename, manifest, ak.files).archive

\* the final block names the archive
ReportsArchive ==
    \E i \in 1..Len(printed) :
        /\ "key" \in DOMAIN printed[i]
        /\ printed[i].key = "OUT_ZIPNAME"
        /\ printed[i].value = zip_filename

\* C13: no partial success.  In every terminal state the working directory
\* holds a newly built archive exactly when the run went through Report and
\* printed the archive's name: a finished run has put the complete archive
\* it built under the reported name, and a run that ended in any other way
\* (a return at validation or at the toolchain check, or an exception) has
\* left the archives of the working directory as it found them.
C13_ArchiveIffReported ==
    /\ Ended =>
          /\ (cwdZip # env0.cwdZip) <=> (pc = "finished")
          /\ ReportsArchive <=> (pc = "finished")
          /\ pc = "finished" =>
                /\ stage = "Report"
                /\ zip_filename \in DOMAIN cwdZip
                /\ cwdZip[zip_filename] = NewArchive
                /\ Len(NewArchive) = Len(manifest)
                /\ \A n \in DOMAIN cwdZip \ {zip_filename} :
                      n \in DOMAIN env0.cwdZip /\ cwdZip[n] = env0.cwdZip[n]
    /\ ~Ended => (cwdZip # env0.cwdZip => pc = "Report")

\* C13 happens: a run has finished and reported, with the archive it built
\* in the place of a prior archive of the same name.
C13_Witness ==
    /\ pc = "finished"
    /\ zip_filename \in DOMAIN env0.cwdZip
    /\ cwdZip[zip_filename] = NewArchive
    /\ cwdZip # env0.cwdZip
    /\ ReportsArchive

\* how often the directory is an entry of the path
TimesOnPath(path, tp) ==
    Cardinality({i \in 1..Len(split(path)) : TextOf(split(path)[i]) = tp})

\* C14 as stated: once the environment has been prepared the path contains
\* the toolchain directory exactly once, and a second preparation leaves
\* the path as the first one left it.
C14_Original ==
    (call.fn = "prepend_toolchain" /\ call.runs >= 1) =>
        /\ TimesOnPath(PATH, call.tp) = 1
        /\ call.runs >= 2 => PATH = ret.result

\* C14 amended: the directory is prepended only if it is not already one of
\* the path's entries.  When the working directory's name holds no
\* separator, after any number of runs in one process the path is the one
\* main first found with the directory in front if it was no entry of it,
\* and the path main first found otherwise: the directory is an entry once
\* in the first case and as often as before in the second, and a second
\* preparation leaves the path unchanged.  When the working directory's
\* name holds the separator, the directory never is an entry of the path and
\* every preparation prepends it once more.
C14_PreparedOnceUnlessSeparator ==
    (call.fn = "prepend_toolchain" /\ call.runs >= 1) =>
        IF pathsep \notin Range(call.tp)
        THEN /\ PATH = IF TimesOnPath(env0.PATH, call.tp) = 0
                       THEN call.tp \o <<pathsep>> \o env0.PATH
                       ELSE env0.PATH
             /\ TimesOnPath(PATH, call.tp)
                   = IF TimesOnPath(env0.PATH, call.tp) = 0 THEN 1
                     ELSE TimesOnPath(env0.PATH, call.tp)
             /\ call.runs >= 2 => PATH = ret.result
        ELSE /\ TimesOnPath(PATH, call.tp) = 0
             /\ PATH = call.tp \o <<pathsep>> \o ret.result
             /\ Len(PATH) = Len(env0.PATH)
                              + call.runs * (Len(call.tp) + 1)

\* C14 happens: the environment was prepared twice in one process, from a
\* path that did not hold the directory, and the directory has no separator
\* in its name.
C14_Witness ==
    /\ call.fn = "prepend_toolchain"
    /\ call.runs >= 2
    /\ pathsep \notin Range(call.tp)
    /\ TimesOnPath(env0.PATH, call.tp) = 0
    /\ PATH = ret.result
    /\ PATH # env0.PATH

\* the make commands among some commands, in their order
IsMake(command) == command[1] = "make"
MakeCommands(commands) == SelectSeq(commands, IsMake)
IssuedCommands == [i \in 1..Len(issued) |-> issued[i].command]

\* this invocation's configuration is the earlier one's with the no_ksu
\* flag the other way
DiffersOnlyInNoKsu ==
    /\ run = "second"
    /\ prev.args = [args EXCEPT !.no_ksu = ~@]

ReportsElapsed ==
    \E i \in 1..Len(printed) :
        "key" \in DOMAIN printed[i] /\ printed[i].key = "ELAPSED_TIME"
ReportedElapsed ==
    LET i == CHOOSE j \in 1..Len(printed) :
                 "key" \in DOMAIN printed[j] /\ printed[j].key = "ELAPSED_TIME"
    IN printed[i].value

\* C16 as stated: the elapsed time of the final block runs from the moment
\* the composition of the configuration command began (the end of the stage
\* before it) to the end of the pipeline, when Report begins.
C16_Original ==
    pc = "finished" =>
        /\ ReportsElapsed
        /\ ReportedElapsed = times["Relocate"] - times["Clean"]

\* C16 amended: the elapsed time of the final block runs from the end of
\* the composition of the commands (line 136) to the end of compilation
\* (line 142): it is the time configuration generation and compilation
\* took, and covers neither the composition nor release extraction, staging,
\* packaging and relocation.  It is computed once, when compilation has
\* returned, and printed unchanged by Report.
C16_ElapsedCoversConfigAndBuild ==
    /\ "Compose" \in StagesRun => start_time = times["Compose"]
    /\ ("Compile" \in StagesRun /\ pc # "raised") =>
          /\ elapsed_time = times["Compile"] - times["Compose"]
          /\ elapsed_time = Duration("Defconfig") + Duration("Compile")
    /\ pc = "finished" =>
          /\ ReportsElapsed
          /\ ReportedElapsed = elapsed_time
          /\ ReportedElapsed < times["Relocate"] - times["Clean"]

\* C16 happens: a run has finished and printed its elapsed time, after
\* release extraction, staging, packaging and relocation took their time.
C16_Witness ==
    /\ pc = "finished"
    /\ ReportsElapsed
    /\ ReportedElapsed = times["Compile"] - times["Compose"]
    /\ times["Relocate"] > times["Compile"]
    /\ times["Compose"] > times["Clean"]

\* the run ended at the toolchain check, with its diagnostic
StoppedForToolchain ==
    /\ pc = "returned"
    /\ stage = "CheckToolchain"
    /\ printed[Len(printed)] = ToolchainLine

\* C17: a run that ends because the toolchain is missing has changed nothing
\* the later stages own: the output directory is as main found it (a prior
\* one is not cleaned), the command-search path is as main found it, no log
\* file was written, and the packaging tree has no newly staged image and
\* no archive; the archives of the working directory and the current
\* directory are untouched as well.  Only the fetch, which precedes the
\* check, may have filled the packaging tree.
C17_MissingToolchainFrame ==
    StoppedForToolchain =>
        /\ ~toolchain
        /\ out = env0.out
        /\ PATH = env0.PATH
        /\ logs = <<>>
        /\ "Image" \in DOMAIN ak.files =>
              /\ "Image" \in DOMAIN env0.ak.files
              /\ ak.files["Image"] = env0.ak.files["Image"]
        /\ ak # env0.ak => FetchIssued
        /\ akZip = env0.akZip
        /\ cwdZip = env0.cwdZip
        /\ cwd = "."
        /\ StagesRun = {"Validate", "Acquire", "CheckToolchain"}

\* C17 happens: the run ended at the toolchain check although a prior
\* output directory was there to clean (and allow_dirty was not given), the
\* path lacked the toolchain directory, and the fetch had just filled the
\* packaging tree.
C17_Witness ==
    /\ StoppedForToolchain
    /\ env0.out.exists /\ ~args.allow_dirty
    /\ out.exists
    /\ PATH = <<"/usr/bin">>
    /\ FetchIssued
    /\ ak # env0.ak

\* both invocations ran to their end, on the same date, with the same
\* target and variant
TwoSuccessesSameDay ==
    /\ run = "second"
    /\ pc = "finished"
    /\ prev.pc = "finished"
    /\ today = prev.today
    /\ args.target = prev.args.target
    /\ build_type(args) = build_type(prev.args)

\* C18: the archive's name is fixed by the kernel version, the target, the
\* variant and the date.  When two invocations with the same target and
\* variant both succeed on the same date, whatever their permissive, no_ksu
\* and allow_dirty flags, the two archive names are equal, the earlier
\* archive was in the working directory under that name when the later
\* invocation started, and afterwards the working directory holds under that
\* name the archive the later invocation built, and no archive it did not
\* hold before.
C18_SameNameLaterReplaces ==
    /\ zip_filename # "" =>
          zip_filename = "SN_1.7.0_" \o args.target \o "_"
                            \o (IF args.oneui THEN "OneUI" ELSE "AOSP")
                            \o "_" \o strftime(today[1]) \o ".zip"
    /\ TwoSuccessesSameDay =>
          /\ zip_filename = prev.zip_filename
          /\ zip_filename \in DOMAIN prev.cwdZip
          /\ env0.cwdZip = AgedArchives(prev.cwdZip)
          /\ cwdZip[zip_filename] = NewArchive
          /\ DOMAIN cwdZip = DOMAIN env0.cwdZip

\* C18 happens: the later of two successful invocations of the same day
\* differed from the earlier one in all three flags and put a newly built
\* image in the place of the earlier archive.
C18_Witness ==
    /\ TwoSuccessesSameDay
    /\ args.permissive # prev.args.permissive
    /\ args.no_ksu # prev.args.no_ksu
    /\ args.allow_dirty # prev.args.allow_dirty
    /\ cwdZip[zip_filename] = NewArchive
    /\ cwdZip[zip_filename] # env0.cwdZip[zip_filename]

====
